---------------------------- MODULE Spec2Model ----------------------------
(***************************************************************************)
(* Model of the Funda price scraper (src/src/prices.py, main.py,           *)
(* settings.py).                                                           *)
(*                                                                         *)
(* Strings are sequences of one-character strings, so that str.replace,    *)
(* str.strip, int() and str() are computed character by character as       *)
(* Python does.  A parsed document is the pair of selector results the     *)
(* code asks for: the values of the data-pagination-page attributes of     *)
(* 'a[data-pagination-page]' and the 'li.search-result' fragments, both in *)
(* document order.  A fragment is the list of texts of its                 *)
(* 'h2.search-result__header-title' elements and of its                    *)
(* 'span.search-result-price' elements (find() takes the first one, or     *)
(* None when there is none).                                               *)
(***************************************************************************)
EXTENDS Integers, Sequences, FiniteSets, TLC

VARIABLES
    pc,             \* position of the run: idle, construct, search, price_list, write, done, failed
    web,            \* the responses the site has given so far, by URL
    requests,       \* the URLs of the HTTP GETs of the current run, in order
    html,           \* local html of the last get_html call
    page_urls,      \* export_prices.page_urls
    idx,            \* number of completed iterations of the loop of search
    search_results, \* search.search_results / export_prices.houses
    price_list,     \* export_prices.price_list
    file,           \* the output file
    file_at_start,  \* the output file as it was when the current run began
    error,          \* the uncaught exception that ended the run, or "none"
    prev            \* how the previous run ended: none, done, failed

vars == <<pc, web, requests, html, page_urls, idx, search_results, price_list,
          file, file_at_start, error, prev>>

---------------------------------------------------------------------------
(* Bounds *)

MaxPage == 2

MaxListings == 2

MaxBodyLen == 3

---------------------------------------------------------------------------
(* Python builtins used by the code *)

NoError == "none"

ValueErrorMax == "ValueError: max() arg is an empty sequence"

ValueErrorInt == "ValueError: invalid literal for int() with base 10"

AttributeErrorH2 == "AttributeError: 'NoneType' object has no attribute 'text' (h2)"

AttributeErrorSpan == "AttributeError: 'NoneType' object has no attribute 'text' (span)"

Ok(v) == [err |-> NoError, val |-> v]

Raise(e) == [err |-> e, val |-> 0]

Digits == <<"0", "1", "2", "3", "4", "5", "6", "7", "8", "9">>

IsDigit(c) == \E d \in 1..10 : Digits[d] = c

DigitVal(c) == (CHOOSE d \in 1..10 : Digits[d] = c) - 1

IsSpace(c) == c \in {" ", "\n", "\t"}

\* s[i..] starts with pat
StartsWithAt(s, pat, i) ==
    /\ i + Len(pat) - 1 <= Len(s)
    /\ \A j \in 1..Len(pat) : s[i + j - 1] = pat[j]

\* str.replace(old, new) from position i on: leftmost, non-overlapping
RECURSIVE ReplaceFrom(_, _, _, _)
ReplaceFrom(s, old, new, i) ==
    IF i > Len(s) THEN <<>>
    ELSE IF StartsWithAt(s, old, i)
         THEN new \o ReplaceFrom(s, old, new, i + Len(old))
         ELSE <<s[i]>> \o ReplaceFrom(s, old, new, i + 1)

Replace(s, old, new) == ReplaceFrom(s, old, new, 1)

\* str.strip()
RECURSIVE LStrip(_)
LStrip(s) == IF s # <<>> /\ IsSpace(Head(s)) THEN LStrip(Tail(s)) ELSE s

RECURSIVE RStrip(_)
RStrip(s) ==
    IF s # <<>> /\ IsSpace(s[Len(s)]) THEN RStrip(SubSeq(s, 1, Len(s) - 1)) ELSE s

Strip(s) == RStrip(LStrip(s))

\* value of a sequence of decimal digits (underscores skipped)
RECURSIVE DecimalValue(_)
DecimalValue(ds) ==
    IF ds = <<>> THEN 0
    ELSE IF ds[Len(ds)] = "_" THEN DecimalValue(SubSeq(ds, 1, Len(ds) - 1))
    ELSE 10 * DecimalValue(SubSeq(ds, 1, Len(ds) - 1)) + DigitVal(ds[Len(ds)])

\* the digit part of an integer literal: digits, single underscores between them
IsDigitPart(ds) ==
    /\ ds # <<>>
    /\ \A j \in 1..Len(ds) : IsDigit(ds[j]) \/ ds[j] = "_"
    /\ IsDigit(ds[1])
    /\ IsDigit(ds[Len(ds)])
    /\ \A j \in 1..(Len(ds) - 1) : ~(ds[j] = "_" /\ ds[j + 1] = "_")

\* int(s): surrounding whitespace, an optional sign, then the digit part
ParseInt(s) ==
    LET t == Strip(s)
        signed == t # <<>> /\ t[1] \in {"+", "-"}
        ds == IF signed THEN Tail(t) ELSE t
    IN  IF ~IsDigitPart(ds) THEN Raise(ValueErrorInt)
        ELSE IF signed /\ t[1] = "-" THEN Ok(0 - DecimalValue(ds))
        ELSE Ok(DecimalValue(ds))

\* str(n), also the formatting of {i} in an f-string
RECURSIVE StrNat(_)
StrNat(n) == IF n < 10 THEN <<Digits[n + 1]>> ELSE StrNat(n \div 10) \o <<Digits[(n % 10) + 1]>>

Str(n) == IF n < 0 THEN <<"-">> \o StrNat(0 - n) ELSE StrNat(n)

\* max() over a generator of int(...) values; the first int() that raises wins
RECURSIVE MaxInt(_)
MaxInt(attrs) ==
    IF attrs = <<>> THEN Raise(ValueErrorMax)
    ELSE LET first == ParseInt(Head(attrs))
             rest == MaxInt(Tail(attrs))
         IN  IF first.err # NoError THEN first
             ELSE IF Tail(attrs) = <<>> THEN first
             ELSE IF rest.err # NoError THEN rest
             ELSE IF rest.val > first.val THEN rest ELSE first


---------------------------------------------------------------------------
(* Texts *)

Euro == <<"€", " ">>

KK == <<" ", "k", ".", "k", ".">>

VON == <<" ", "v", ".", "o", ".", "n", ".">>

PriceOnRequest ==
    <<"P", "r", "i", "c", "e", " ", "o", "n", " ", "r", "e", "q", "u", "e", "s", "t">>

Zero == <<"0">>

Dot == <<".">>

Comma == <<",">>

Empty == <<>>

---------------------------------------------------------------------------
(* settings.py, prices.py *)

base_url == <<"https://www.funda.nl/koop/maarssen">>

COLUMN_HEADERS ==
    << <<"A", "d", "d", "r", "e", "s", "s">>,
       <<"P", "r", "i", "c", "e", " ", "(", "e", "u", "r", "o", ")">> >>

HTTP_OK == 200

\* bs4.BeautifulSoup('', 'html.parser'): every selector gives no match
EmptyDocument == [page_links |-> <<>>, search_results |-> <<>>]

\* get_html without the check of the status code
get_html_unchecked(resp) == resp.content

\* get_html, given the response of requests.get
get_html(resp) ==
    IF resp.status_code = HTTP_OK THEN resp.content ELSE EmptyDocument

\* num_of_pages = len(page_links)
NumOfPagesCount(page_links) ==
    IF page_links = <<>> THEN Raise(ValueErrorMax) ELSE Ok(Len(page_links))

\* num_of_pages = max(..., default=0)
NumOfPagesDefault(page_links) ==
    IF page_links = <<>> THEN Ok(0) ELSE MaxInt(page_links)

\* num_of_pages = max(int(a['data-pagination-page']) for a in page_links)
NumOfPages(page_links) == MaxInt(page_links)

\* page 1 under the bare base URL
PageUrlBareFirst(base, i) == IF i = 1 THEN base ELSE base \o <<"/p">> \o Str(i)

\* f'{base_url}/p{i}'
PageUrl(base, i) == base \o <<"/p">> \o Str(i)

\* [f'{base_url}/p{i}' for i in range(1, num_of_pages+1)]
PageUrls(base, n) == [i \in 1..n |-> PageUrl(base, i)]

clean_address(raw_address) == Strip(raw_address)

\* the separators removed before the suffixes
clean_price_separators_first(raw_price) ==
    ParseInt(Replace(Replace(Replace(Replace(Replace(Replace(raw_price,
        Euro, Empty), Dot, Empty), Comma, Empty), KK, Empty), VON, Empty),
        PriceOnRequest, Zero))

clean_price(raw_price) ==
    ParseInt(Replace(Replace(Replace(Replace(Replace(Replace(raw_price,
        Euro, Empty), KK, Empty), VON, Empty), PriceOnRequest, Zero),
        Dot, Empty), Comma, Empty))

\* house_html.find('h2', ...).text: None has no attribute text
parse_address(house_html) ==
    IF house_html.h2 = <<>> THEN Raise(AttributeErrorH2)
    ELSE Ok(clean_address(house_html.h2[1]))

parse_price(house_html) ==
    IF house_html.span = <<>> THEN Raise(AttributeErrorSpan)
    ELSE clean_price(house_html.span[1])

price_row(house_html) ==
    LET address == parse_address(house_html)
        price == parse_price(house_html)
    IN  IF address.err # NoError THEN address
        ELSE IF price.err # NoError THEN price
        ELSE Ok(<<address.val, price.val>>)

\* [price_row(html) for html in houses]: the first price_row that raises ends it
RECURSIVE PriceList(_)
PriceList(houses) ==
    IF houses = <<>> THEN Ok(<<>>)
    ELSE LET first == price_row(Head(houses))
             rest == PriceList(Tail(houses))
         IN  IF first.err # NoError THEN first
             ELSE IF rest.err # NoError THEN rest
             ELSE Ok(<<first.val>> \o rest.val)

\* csv.writer writes str(field) for a field that is not a string
CsvRow(row) == <<row[1], Str(row[2])>>

\* writer.writerows(price_list)
CsvRows(rows) == [i \in 1..Len(rows) |-> CsvRow(rows[i])]

\* open(csv_file, 'at'): the file keeps what it held
OpenForAppending(f) == [exists |-> TRUE, rows |-> f.rows]

\* open(csv_file, 'wt'): the file exists and is empty, whatever it held
OpenForWriting(f) == [exists |-> TRUE, rows |-> <<>>]

\* writer.writerow / writer.writerows on the open file
WriteRows(f, rows) == [f EXCEPT !.rows = @ \o rows]


---------------------------------------------------------------------------
(* The site: the responses requests.get can receive *)

SeqsUpTo(S, n) == UNION {[1..m -> S] : m \in 0..n}

TitleA == <<" ", "A", "1", " ">>

TitleB == <<"B", "2", "\n">>

PriceA == <<"€", " ", "3", "5", "0", ".", "0", "0", "0", " ", "k", ".", "k", ".">>

PriceC == <<"€", " ", "1", ",", "2", "5", "0", ".", "0", "0", "0", " ", "v", ".", "o", ".", "n", ".">>

PriceUnknown == <<"n", ".", "o", ".", "t", ".", "k", ".">>

Fragment(titles, prices) == [h2 |-> titles, span |-> prices]

GoodA == Fragment(<<TitleA>>, <<PriceA>>)

GoodB == Fragment(<<TitleB>>, <<PriceOnRequest>>)

\* the listings of the result pages: two that parse, and one for each fatal reason
Fragments ==
    { GoodA, GoodB,
      Fragment(<<>>, <<PriceA>>),
      Fragment(<<TitleA>>, <<>>),
      Fragment(<<TitleA>>, <<PriceUnknown>>) }

Statuses == {HTTP_OK, 404}

\* the body of a non-200 response: it has markup too, which get_html discards
ErrorBody == [page_links |-> <<Str(1)>>, search_results |-> <<GoodA>>]

Markers == {Str(i) : i \in 1..MaxPage}

\* the pagination links of a seed page: none, one, or two in either order
MarkerLists ==
    {<<>>} \cup {<<a>> : a \in Markers} \cup {<<a, b>> : a \in Markers, b \in Markers}

\* the seed page is the first result page: pagination links and listings
SeedResponses ==
    {[status_code |-> HTTP_OK,
      content |-> [page_links |-> links, search_results |-> <<GoodA>>]] :
        links \in MarkerLists}
    \cup {[status_code |-> st, content |-> ErrorBody] : st \in Statuses \ {HTTP_OK}}

\* a result page with at most room listings
PageResponses(room) ==
    {[status_code |-> HTTP_OK,
      content |-> [page_links |-> <<>>, search_results |-> frags]] :
        frags \in SeqsUpTo(Fragments, room)}
    \cup {[status_code |-> st, content |-> ErrorBody] : st \in Statuses \ {HTTP_OK}}

\* requests.get(url): the site answers a URL it has answered before in the same
\* way; MaxListings caps the listings of the whole result
Responses(url) ==
    IF url \in DOMAIN web THEN {web[url]}
    ELSE IF url = base_url THEN SeedResponses
    ELSE PageResponses(MaxListings - Len(search_results))

NoFile == [exists |-> FALSE, rows |-> <<>>]

OldFile == [exists |-> TRUE, rows |-> <<COLUMN_HEADERS, <<<<"O", "l", "d">>, <<"9">>>>>>]

---------------------------------------------------------------------------
(* The run *)

Init ==
    /\ pc = "idle"
    /\ web = <<>>
    /\ requests = <<>>
    /\ html = EmptyDocument
    /\ page_urls = <<>>
    /\ idx = 0
    /\ search_results = <<>>
    /\ price_list = <<>>
    /\ file \in {NoFile, OldFile}
    /\ file_at_start = file
    /\ error = NoError
    /\ prev = "none"

\* main.py: main(base_url, csv_file) calls export_prices; a run starts in a new
\* process, after the previous one has ended
Main ==
    /\ pc \in {"idle", "done", "failed"}
    /\ prev' = IF pc = "idle" THEN "none" ELSE pc
    /\ pc' = "construct"
    /\ requests' = <<>>
    /\ html' = EmptyDocument
    /\ page_urls' = <<>>
    /\ idx' = 0
    /\ search_results' = <<>>
    /\ price_list' = <<>>
    /\ error' = NoError
    /\ file_at_start' = file
    /\ UNCHANGED <<web, file>>

\* page_urls = construct_page_urls(base_url)
ConstructPageUrls ==
    /\ pc = "construct"
    /\ \E resp \in Responses(base_url) :
        LET doc == get_html(resp)
            num_of_pages == NumOfPages(doc.page_links)
            urls == IF num_of_pages.err = NoError
                    THEN PageUrls(base_url, num_of_pages.val) ELSE <<>>
        IN  /\ web' = (base_url :> resp) @@ web
            /\ requests' = Append(requests, base_url)
            /\ html' = doc
            /\ page_urls' = urls
            /\ error' = num_of_pages.err
            /\ pc' = IF num_of_pages.err # NoError THEN "failed"
                     ELSE IF urls = <<>> THEN "price_list" ELSE "search"
    /\ UNCHANGED <<idx, search_results, price_list, file, file_at_start, prev>>

\* search_results grown at the front
SearchStepPrepend ==
    /\ pc = "search"
    /\ idx < Len(page_urls)
    /\ LET url == page_urls[idx + 1] IN
       \E resp \in Responses(url) :
        LET doc == get_html(resp) IN
            /\ web' = (url :> resp) @@ web
            /\ requests' = Append(requests, url)
            /\ html' = doc
            /\ search_results' = doc.search_results \o search_results
            /\ idx' = idx + 1
            /\ pc' = IF idx + 1 = Len(page_urls) THEN "price_list" ELSE "search"
    /\ UNCHANGED <<page_urls, price_list, file, file_at_start, error, prev>>

\* the loop left at the first page that is not answered 200
SearchStepStopAtError ==
    /\ pc = "search"
    /\ idx < Len(page_urls)
    /\ LET url == page_urls[idx + 1] IN
       \E resp \in Responses(url) :
        LET doc == get_html(resp) IN
            /\ web' = (url :> resp) @@ web
            /\ requests' = Append(requests, url)
            /\ html' = doc
            /\ search_results' = search_results \o doc.search_results
            /\ idx' = idx + 1
            /\ pc' = IF idx + 1 = Len(page_urls) \/ resp.status_code # HTTP_OK
                     THEN "price_list" ELSE "search"
    /\ UNCHANGED <<page_urls, price_list, file, file_at_start, error, prev>>

\* one iteration of the loop of search; after the last one search returns
SearchStep ==
    /\ pc = "search"
    /\ idx < Len(page_urls)
    /\ LET url == page_urls[idx + 1] IN
       \E resp \in Responses(url) :
        LET doc == get_html(resp) IN
            /\ web' = (url :> resp) @@ web
            /\ requests' = Append(requests, url)
            /\ html' = doc
            /\ search_results' = search_results \o doc.search_results
            /\ idx' = idx + 1
            /\ pc' = IF idx + 1 = Len(page_urls) THEN "price_list" ELSE "search"
    /\ UNCHANGED <<page_urls, price_list, file, file_at_start, error, prev>>

\* the file opened before the records are computed
ComputePriceListAfterOpen ==
    /\ pc = "price_list"
    /\ LET rows == PriceList(search_results) IN
        /\ error' = rows.err
        /\ pc' = IF rows.err # NoError THEN "failed" ELSE "write"
        /\ price_list' = IF rows.err # NoError THEN <<>> ELSE rows.val
    /\ file' = WriteRows(OpenForWriting(file), <<COLUMN_HEADERS>>)
    /\ UNCHANGED <<web, requests, html, page_urls, idx, search_results,
                   file_at_start, prev>>

\* price_list = [price_row(html) for html in houses]
ComputePriceList ==
    /\ pc = "price_list"
    /\ LET rows == PriceList(search_results) IN
        /\ error' = rows.err
        /\ pc' = IF rows.err # NoError THEN "failed" ELSE "write"
        /\ price_list' = IF rows.err # NoError THEN <<>> ELSE rows.val
    /\ UNCHANGED <<web, requests, html, page_urls, idx, search_results, file,
                   file_at_start, prev>>

\* the with block: open, writerow(COLUMN_HEADERS), writerows(price_list), close
WriteCsv ==
    /\ pc = "write"
    /\ file' = WriteRows(WriteRows(OpenForWriting(file), <<COLUMN_HEADERS>>),
                         CsvRows(price_list))
    /\ pc' = "done"
    /\ UNCHANGED <<web, requests, html, page_urls, idx, search_results, price_list,
                   file_at_start, error, prev>>

Next == Main \/ ConstructPageUrls \/ SearchStep \/ ComputePriceList \/ WriteCsv

Spec == Init /\ [][Next]_vars


---------------------------------------------------------------------------
(* Price texts: the run over a one-page site whose only listing carries one  *)
(* of the bounded price texts                                               *)

BodyChars == {"0", "1", ".", ",", "-"}

Suffixes == {<<>>, KK, VON}

PriceTexts ==
    {prefix \o body \o suffix :
        prefix \in {<<>>, Euro}, body \in SeqsUpTo(BodyChars, MaxBodyLen),
        suffix \in Suffixes}
    \cup {PriceOnRequest, PriceA, PriceC, PriceUnknown}

OnePageSite(raw_price) ==
    (base_url :> [status_code |-> HTTP_OK,
                  content |-> [page_links |-> <<Str(1)>>, search_results |-> <<GoodA>>]])
    @@ (PageUrl(base_url, 1) :>
                 [status_code |-> HTTP_OK,
                  content |-> [page_links |-> <<>>,
                               search_results |-> <<Fragment(<<TitleA>>, <<raw_price>>)>>]])

InitPrice ==
    /\ pc = "idle"
    /\ \E raw_price \in PriceTexts : web = OnePageSite(raw_price)
    /\ requests = <<>>
    /\ html = EmptyDocument
    /\ page_urls = <<>>
    /\ idx = 0
    /\ search_results = <<>>
    /\ price_list = <<>>
    /\ file = NoFile
    /\ file_at_start = file
    /\ error = NoError
    /\ prev = "none"

SpecPrice == InitPrice /\ [][Next]_vars

---------------------------------------------------------------------------
(* Properties *)

ListingErrors == {AttributeErrorH2, AttributeErrorSpan, ValueErrorInt}

Last(seq) == seq[Len(seq)]

\* the run is past construct_page_urls, which returned
Constructed ==
    \/ pc \in {"search", "price_list", "write", "done"}
    \/ pc = "failed" /\ error \in ListingErrors

\* the page number a pagination marker carries
MarkerValue(attr) == CHOOSE i \in 1..MaxPage : Str(i) = attr

\* the listings the site serves on result pages 1..i, in page-then-document order
RECURSIVE SiteListings(_)
SiteListings(i) ==
    IF i = 0 THEN <<>>
    ELSE LET resp == web[base_url \o <<"/p">> \o Str(i)]
         IN  SiteListings(i - 1) \o
             (IF resp.status_code = 200 THEN resp.content.search_results ELSE <<>>)

\* C1: a run that ends in a fatal error (no pagination markers, a listing without
\* title or price element, an unparseable price) has not touched the output file:
\* none was created, and an existing one holds what it held when the run began.
C1_FatalLeavesFileUntouched ==
    pc = "failed" =>
        /\ error \in ListingErrors \cup {ValueErrorMax}
        /\ file = file_at_start

\* the second listing is the one that fails, and there was a file before the run
C1_Witness ==
    /\ pc = "failed"
    /\ error = ValueErrorInt
    /\ Len(search_results) = 2
    /\ price_row(search_results[1]).err = NoError
    /\ file = OldFile


\* C2: after a successful run the file holds the header row and then one row per
\* listing of pages p1..pn, in page order and, within a page, in document order:
\* total listing count + 1 rows, none dropped, duplicated or reordered.
C2_RowsInPageThenDocumentOrder ==
    pc = "done" =>
        LET listings == SiteListings(Len(page_urls)) IN
            /\ file.exists
            /\ Len(file.rows) = Len(listings) + 1
            /\ file.rows[1] = COLUMN_HEADERS
            /\ \A k \in 1..Len(listings) :
                   file.rows[k + 1] = CsvRow(price_row(listings[k]).val)

\* two pages with one listing each, the two listings different
C2_Witness ==
    /\ pc = "done"
    /\ Len(page_urls) = 2
    /\ Len(SiteListings(1)) = 1
    /\ Len(SiteListings(2)) = 2
    /\ SiteListings(2)[1] # SiteListings(2)[2]

\* C3: with at least one pagination marker on the seed page, construct_page_urls
\* returns n URLs, n the maximum marker value (not the number of markers): the
\* i-th is base_url + '/p' + i, ascending, and the bare base_url is not among them.
C3_PageUrlsUpToMaxMarker ==
    Constructed =>
        LET links == web[base_url].content.page_links
            values == {MarkerValue(links[j]) : j \in 1..Len(links)}
            n == CHOOSE m \in values : \A v \in values : v <= m
        IN  /\ links # <<>>
            /\ Len(page_urls) = n
            /\ \A i \in 1..n : page_urls[i] = base_url \o <<"/p">> \o Str(i)
            /\ \A i \in 1..n : page_urls[i] # base_url

\* one marker, of page 2: two URLs
C3_Witness ==
    /\ pc = "search"
    /\ web[base_url].content.page_links = <<Str(2)>>
    /\ page_urls = <<base_url \o <<"/p", "1">>, base_url \o <<"/p", "2">>>>

\* C4 as stated: no fetch answered with a non-200 status, the seed fetch included,
\* aborts the run; a run with such a fetch fails only on a listing it cannot parse.
C4_NonOkNeverAborts ==
    (pc = "failed" /\ \E j \in 1..Len(requests) : web[requests[j]].status_code # 200)
        => error \in ListingErrors

\* C4 amended: every fetch answered with a non-200 status yields the empty
\* document.  For a page fetch p{i} that never aborts the run: a run that got past
\* the seed page fails only on a listing it cannot parse.  For the seed fetch the
\* empty document has no pagination markers, and the run aborts on them.
C4_NonOkPageNeverAborts ==
    /\ (requests # <<>> /\ web[Last(requests)].status_code # 200)
            => html = EmptyDocument
    /\ (requests # <<>> /\ web[requests[1]].status_code # 200)
            => (pc = "failed" /\ error = ValueErrorMax /\ requests = <<base_url>>)
    /\ (pc = "failed" /\ Len(requests) > 1) => error \in ListingErrors

\* a page answered 404, the run done and a row of another page written
C4_Witness ==
    /\ pc = "done"
    /\ \E j \in 2..Len(requests) : web[requests[j]].status_code # 200
    /\ Len(file.rows) = 2

\* C5: in search a page answered with a non-200 status contributes no listing and
\* raises nothing; the pages after it are fetched, and the listings of the other
\* pages are in the result unchanged and in order.
C5_NonOkPageContributesNothing ==
    /\ Constructed => search_results = SiteListings(idx)
    /\ pc = "search" => error = NoError /\ idx < Len(page_urls)
    /\ (Constructed /\ pc # "search") => idx = Len(page_urls)

\* page 1 answered 404, page 2 fetched after it and its two listings kept
C5_Witness ==
    /\ pc = "price_list"
    /\ Len(page_urls) = 2
    /\ web[page_urls[1]].status_code = 404
    /\ web[page_urls[2]].status_code = 200
    /\ Len(search_results) = 2
    /\ search_results = web[page_urls[2]].content.search_results

\* C8: a successful run truncates the file and never appends: whatever the file
\* held, afterwards it holds the header row and the records of this run, and a
\* second successful run against the same responses leaves it as the first did.
C8_TruncatesNeverAppends ==
    pc = "done" =>
        /\ file = [exists |-> TRUE, rows |-> <<COLUMN_HEADERS>> \o CsvRows(price_list)]
        /\ prev = "done" => file = file_at_start

\* the second successful run in a row, with records in the file
C8_Witness ==
    /\ pc = "done"
    /\ prev = "done"
    /\ Len(file.rows) = 3

\* C9: a seed page without pagination markers (a non-200 seed fetch included) is
\* fatal: construct_page_urls raises, no page URL is fetched, no file is written.
C9_NoPaginationIsFatal ==
    (requests # <<>> /\
     (web[base_url].status_code # 200 \/ web[base_url].content.page_links = <<>>))
        => /\ pc = "failed"
           /\ error = ValueErrorMax
           /\ requests = <<base_url>>
           /\ page_urls = <<>>
           /\ file = file_at_start

\* the seed page answered 200 and carries no marker
C9_Witness ==
    /\ pc = "failed"
    /\ web[base_url].status_code = 200
    /\ web[base_url].content.page_links = <<>>
    /\ file = OldFile

\* C10: the GETs of a run are the base URL once, then base/p1, ..., base/p{n}, each
\* once and in that order, n + 1 in all; none is retried whatever its status, and
\* all page fetches are done before the first listing is parsed.
C10_RequestSequence ==
    LET n == Len(page_urls)
        expected == <<base_url>> \o [i \in 1..n |-> base_url \o <<"/p">> \o Str(i)]
    IN  /\ pc \in {"idle", "construct"} => requests = <<>>
        /\ pc = "search" => requests = SubSeq(expected, 1, idx + 1)
        /\ Constructed /\ pc # "search" => (requests = expected /\ Len(requests) = n + 1)
        /\ pc = "failed" /\ ~Constructed => requests = <<base_url>>
        /\ \A i \in 1..Len(requests) : \A j \in 1..Len(requests) :
               requests[i] = requests[j] => i = j
        /\ pc \in {"idle", "construct", "search"} => price_list = <<>> /\ error = NoError

\* three GETs, the first page answered 404 and not fetched again
C10_Witness ==
    /\ pc = "done"
    /\ Len(requests) = 3
    /\ web[requests[2]].status_code = 404


\* a price text of the known form: '€ ', digit groups separated by '.' or ',',
\* and then nothing, ' k.k.' or ' v.o.n.'
IsDigitGroups(body) ==
    /\ body # <<>>
    /\ \A j \in 1..Len(body) : IsDigit(body[j]) \/ body[j] \in {".", ","}
    /\ IsDigit(body[1])
    /\ IsDigit(body[Len(body)])
    /\ \A j \in 1..(Len(body) - 1) : IsDigit(body[j]) \/ IsDigit(body[j + 1])

KnownForm(text) ==
    \E suffix \in Suffixes :
        /\ Len(text) >= 2 + Len(suffix)
        /\ SubSeq(text, 1, 2) = <<"€", " ">>
        /\ SubSeq(text, Len(text) - Len(suffix) + 1, Len(text)) = suffix
        /\ IsDigitGroups(SubSeq(text, 3, Len(text) - Len(suffix)))

\* the integer formed by the digits of the text alone
RECURSIVE DigitsAlone(_)
DigitsAlone(text) ==
    IF text = <<>> THEN 0
    ELSE IF IsDigit(Last(text))
         THEN 10 * DigitsAlone(SubSeq(text, 1, Len(text) - 1)) + DigitVal(Last(text))
         ELSE DigitsAlone(SubSeq(text, 1, Len(text) - 1))

\* the price texts of the listings whose records the run computed
PriceText(k) == search_results[k].span[1]

\* C6: every price record, and so every row of the file, has a non-negative
\* integer price, whatever price text clean_price accepts; 'Price on request'
\* gives 0.
C6_PriceNonNegative ==
    \A k \in 1..Len(price_list) :
        /\ price_list[k][2] >= 0
        /\ PriceText(k) = PriceOnRequest => price_list[k][2] = 0

\* C7: for a price text of the known form clean_price returns the integer formed
\* by its digits alone ('€ 350.000 k.k.' gives 350000, '€ 1,250.000 v.o.n.' gives
\* 1250000), and 'Price on request' gives 0; clean_price raises on no such text.
C7_CleanPriceKnownForms ==
    /\ \A k \in 1..Len(price_list) :
        /\ KnownForm(PriceText(k)) => price_list[k][2] = DigitsAlone(PriceText(k))
        /\ PriceText(k) = PriceOnRequest => price_list[k][2] = 0
        /\ PriceText(k) = PriceA => price_list[k][2] = 350000
        /\ PriceText(k) = PriceC => price_list[k][2] = 1250000
    /\ (pc = "failed" /\ error = ValueErrorInt) =>
        \E k \in 1..Len(search_results) :
            /\ search_results[k].span # <<>>
            /\ ~KnownForm(PriceText(k))
            /\ PriceText(k) # PriceOnRequest

\* '€ 1,250.000 v.o.n.' parsed and written
C7_Witness ==
    /\ pc = "done"
    /\ PriceText(1) = PriceC
    /\ price_list = << <<<<"A", "1">>, 1250000>> >>
    /\ file.rows[2] = <<<<"A", "1">>, <<"1", "2", "5", "0", "0", "0", "0">>>>

=============================================================================
